---- MODULE Spec2Model ----
(***************************************************************************)
(* clipboard-sanitizer (src/src/main.rs): the polling loop that reads the  *)
(* clipboard, parses it as a URL, strips tracking parameters by site rule  *)
(* and writes the result back; init_settings; and the test module's direct *)
(* calls of strip_params and strip_tracking.                               *)
(*                                                                         *)
(* A string is a sequence of atoms.  An atom is a TLA+ string standing for *)
(* a run of characters: a delimiter ("/", "?", "&", "=", ...), a percent   *)
(* escape ("%20") or a word ("si", "utm_source", "youtu.be").  No word is  *)
(* a concatenation of other atoms, so two strings are equal exactly when   *)
(* their atom sequences are.  Option<T> is << >> (None) or <<x>> (Some).   *)
(***************************************************************************)
EXTENDS Integers, Sequences, FiniteSets, TLC

VARIABLES
    pc,           \* where the process is: main's position, or the test that runs
    APP_CONFIG,   \* static mut APP_CONFIG: Option<HashMap<String, String>>
    env,          \* what init_settings meets: config directory, file, settings
    clipboard,    \* the system clipboard: Option of its text
    tick,         \* what the last iteration of main's loop did
    writes,       \* successful set_text calls since the clipboard was last changed from outside
    t_url,        \* tests: the parsed input URL
    t_strip,      \* tests: the strip list handed to strip_params
    t_out         \* tests: what the call returned

vars == <<pc, APP_CONFIG, env, clipboard, tick, writes, t_url, t_strip, t_out>>

-----------------------------------------------------------------------------
(* Option and string helpers (std)                                         *)

None == << >>
Some(x) == <<x>>
is_some(o) == o # << >>
unwrap(o) == o[1]

\* str::starts_with
starts_with(s, p) == Len(p) <= Len(s) /\ SubSeq(s, 1, Len(p)) = p

\* str::strip_prefix(..).unwrap(), called only when starts_with holds
strip_prefix(s, p) == SubSeq(s, Len(p) + 1, Len(s))

\* str::find for one delimiter out of a set: the first index, or 0
find_any(s, cs) ==
    IF \E i \in 1..Len(s) : s[i] \in cs
    THEN CHOOSE i \in 1..Len(s) : s[i] \in cs /\ \A j \in 1..(i - 1) : s[j] \notin cs
    ELSE 0

\* str::split(c): at least one piece, empty pieces kept
RECURSIVE split(_, _)
split(s, c) ==
    LET i == find_any(s, {c})
    IN  IF i = 0 THEN <<s>>
        ELSE <<SubSeq(s, 1, i - 1)>> \o split(SubSeq(s, i + 1, Len(s)), c)

\* the pieces of ps joined with sep between them
RECURSIVE join(_, _)
join(ps, sep) ==
    IF Len(ps) = 0 THEN << >>
    ELSE IF Len(ps) = 1 THEN ps[1]
    ELSE ps[1] \o sep \o join(Tail(ps), sep)

-----------------------------------------------------------------------------
(* The url crate: Url, Url::parse, as_str, domain, query_pairs, setters    *)

\* the schemes of the texts modelled: the special ones that have a host, and
\* mailto for a scheme whose text has no "//" authority
SpecialSchemes == {"https", "http"}
Schemes == SpecialSchemes \cup {"mailto"}
Ipv4Hosts == {"127.0.0.1"}

\* host parsing of a special scheme lowercases ASCII letters
ascii_lowercase(s) ==
    [i \in 1..Len(s) |->
        CASE s[i] = "YOUTU.BE" -> "youtu.be"
          [] s[i] = "WWW.YouTube.com" -> "www.youtube.com"
          [] OTHER -> s[i]]

\* percent-encoding of the path, query and fragment of a parsed text
\* (a space is in every one of the three encode sets)
encode_component(s) == [i \in 1..Len(s) |-> IF s[i] = " " THEN "%20" ELSE s[i]]

\* percent-encoding of set_path's argument: as a parsed path, and in a setter
\* '?' and '#' do not end the path but are encoded
encode_set_path(s) ==
    [i \in 1..Len(s) |->
        CASE s[i] = " " -> "%20"
          [] s[i] = "?" -> "%3F"
          [] s[i] = "#" -> "%23"
          [] OTHER -> s[i]]

\* the path parser's segment loop: '..' drops the last segment kept, '.' is
\* skipped, and either as the final segment leaves a trailing '/'
RECURSIVE push_segments(_, _)
push_segments(kept, segs) ==
    IF Len(segs) = 0 THEN kept
    ELSE LET seg == segs[1]
             last == Len(segs) = 1
             popped == IF Len(kept) = 0 THEN kept ELSE SubSeq(kept, 1, Len(kept) - 1)
         IN  IF seg = <<".", ".">>
             THEN push_segments(IF last THEN Append(popped, << >>) ELSE popped, Tail(segs))
             ELSE IF seg = <<".">>
             THEN push_segments(IF last THEN Append(kept, << >>) ELSE kept, Tail(segs))
             ELSE push_segments(Append(kept, seg), Tail(segs))

\* a path that starts with '/' (or is empty), parsed for a URL with a host
parse_path(p) ==
    LET body == IF starts_with(p, <<"/">>) THEN Tail(p) ELSE p
    IN  <<"/">> \o join(push_segments(<< >>, split(body, "/")), <<"/">>)

\* the leading '/' atoms of s dropped (a special scheme ignores extra slashes)
RECURSIVE skip_slashes(_)
skip_slashes(s) == IF starts_with(s, <<"/">>) THEN skip_slashes(Tail(s)) ELSE s

\* s up to (not including) the first atom of cs, and the rest from that atom on
before(s, cs) == LET i == find_any(s, cs) IN IF i = 0 THEN s ELSE SubSeq(s, 1, i - 1)
from(s, cs) == LET i == find_any(s, cs) IN IF i = 0 THEN << >> ELSE SubSeq(s, i, Len(s))

\* the query and the fragment of what follows the path
parse_query(rest) ==
    IF starts_with(rest, <<"?">>)
    THEN Some(encode_component(before(Tail(rest), {"#"})))
    ELSE None
parse_fragment(rest) ==
    LET f == from(rest, {"#"})
    IN  IF f = << >> THEN None ELSE Some(encode_component(Tail(f)))

\* Url::parse: Some(url), or None for a ParseError
Url_parse(text) ==
    IF ~(Len(text) >= 2 /\ text[1] \in Schemes /\ text[2] = ":") THEN None
    ELSE LET scheme == text[1]
             after == SubSeq(text, 3, Len(text))
         IN  IF scheme \in SpecialSchemes
             THEN LET auth == skip_slashes(after)
                      host == ascii_lowercase(before(auth, {"/", "?", "#"}))
                      rest == from(auth, {"/", "?", "#"})
                  IN  IF host = << >> \/ \E i \in 1..Len(host) : host[i] = " "
                      THEN None
                      ELSE Some([scheme |-> scheme,
                                 host |-> Some(host),
                                 path |-> parse_path(encode_component(before(rest, {"?", "#"}))),
                                 query |-> parse_query(from(rest, {"?", "#"})),
                                 fragment |-> parse_fragment(rest)])
             ELSE Some([scheme |-> scheme,
                        host |-> None,
                        path |-> encode_component(before(after, {"?", "#"})),
                        query |-> parse_query(from(after, {"?", "#"})),
                        fragment |-> parse_fragment(after)])

\* Url::as_str: the serialization
as_str(url) ==
    <<url.scheme, ":">>
    \o (IF is_some(url.host) THEN <<"/", "/">> \o unwrap(url.host) ELSE << >>)
    \o url.path
    \o (IF is_some(url.query) THEN <<"?">> \o unwrap(url.query) ELSE << >>)
    \o (IF is_some(url.fragment) THEN <<"#">> \o unwrap(url.fragment) ELSE << >>)

\* Url::domain: the host when it is a domain name, not an IP address
domain(url) ==
    IF is_some(url.host) /\ ~(\E a \in Ipv4Hosts : unwrap(url.host) = <<a>>)
    THEN url.host
    ELSE None

\* Url::set_host(Some(host)) on a URL that has a host
set_host(url, host) == [url EXCEPT !.host = Some(host)]

\* Url::set_path on a URL that has a host
set_path(url, p) == [url EXCEPT !.path = parse_path(encode_set_path(p))]

\* Url::set_query(None)
set_query_none(url) == [url EXCEPT !.query = None]

\* form_urlencoded's decoding of a name or value: '+' is a space, and the
\* percent escapes are undone
form_decode(s) ==
    [i \in 1..Len(s) |->
        CASE s[i] = "+" -> " "
          [] s[i] = "%20" -> " "
          [] s[i] = "%2B" -> "+"
          [] s[i] = "%26" -> "&"
          [] s[i] = "%3D" -> "="
          [] s[i] = "%2F" -> "/"
          [] s[i] = "%3F" -> "?"
          [] s[i] = "%23" -> "#"
          [] OTHER -> s[i]]

\* form_urlencoded::byte_serialize: letters, digits and * - . _ stay, a space
\* becomes '+', every other byte is percent-encoded
byte_serialize(s) ==
    [i \in 1..Len(s) |->
        CASE s[i] = " " -> "+"
          [] s[i] = "+" -> "%2B"
          [] s[i] = "&" -> "%26"
          [] s[i] = "=" -> "%3D"
          [] s[i] = "/" -> "%2F"
          [] s[i] = "?" -> "%3F"
          [] s[i] = "#" -> "%23"
          [] OTHER -> s[i]]

\* form_urlencoded::parse: the pieces between '&', empty pieces skipped, each
\* split at its first '=' into a decoded (name, value)
RECURSIVE parse_pieces(_)
parse_pieces(pieces) ==
    IF Len(pieces) = 0 THEN << >>
    ELSE LET piece == pieces[1]
             name == before(piece, {"="})
             value == IF find_any(piece, {"="}) = 0 THEN << >> ELSE Tail(from(piece, {"="}))
         IN  (IF piece = << >> THEN << >> ELSE <<(<<form_decode(name), form_decode(value)>>)>>)
             \o parse_pieces(Tail(pieces))

\* Url::query_pairs: the pairs of the query, or of "" when there is none
query_pairs(url) ==
    parse_pieces(split(IF is_some(url.query) THEN unwrap(url.query) ELSE << >>, "&"))

\* url.query_pairs_mut().clear()
query_pairs_mut_clear(url) == [url EXCEPT !.query = Some(<< >>)]

\* url.query_pairs_mut().append_pair(name, value)
append_pair(url, name, value) ==
    LET q == IF is_some(url.query) THEN unwrap(url.query) ELSE << >>
    IN  [url EXCEPT !.query =
            Some((IF q = << >> THEN << >> ELSE q \o <<"&">>)
                 \o byte_serialize(name) \o <<"=">> \o byte_serialize(value))]

-----------------------------------------------------------------------------
(* src/src/main.rs                                                         *)

str(a) == <<a>>

YOUTUBE_TRACKING_PARAMS == <<str("si")>>
COMMON_TRACKING_PARAMS ==
    <<str("utm_source"), str("utm_medium"), str("utm_campaign"), str("utm_term"),
      str("utm_content")>>

\* Vec::contains
contains(v, x) == \E i \in 1..Len(v) : v[i] = x

\* read_setting: the value of key in APP_CONFIG, None without a map or a key
read_setting(key) ==
    IF is_some(APP_CONFIG) /\ key \in DOMAIN unwrap(APP_CONFIG)
    THEN Some(unwrap(APP_CONFIG)[key])
    ELSE None

\* enabled_prefixes: "/token/" for every token of YOUTUBE_PREFIXES, in order
enabled_prefixes ==
    LET prefixes_csv == read_setting("YOUTUBE_PREFIXES")
    IN  IF ~is_some(prefixes_csv) THEN << >>
        ELSE IF unwrap(prefixes_csv) = << >> THEN << >>
        ELSE LET tokens == split(unwrap(prefixes_csv), ",")
             IN  [i \in 1..Len(tokens) |-> <<"/">> \o tokens[i] \o <<"/">>]

\* map_youtube_prefix without its set_host
map_youtube_prefix_keeps_host(url, prefix) ==
    IF starts_with(url.path, prefix)
    THEN LET video_id == split(strip_prefix(url.path, prefix), "/")[1]
         IN  Some(set_path(url, <<"/">> \o video_id))
    ELSE None

\* map_youtube_prefix: Some(url on youtu.be with path "/" + video id), or None
map_youtube_prefix(url, prefix) ==
    IF starts_with(url.path, prefix)
    THEN LET video_id == split(strip_prefix(url.path, prefix), "/")[1]
         IN  Some(set_path(set_host(url, str("youtu.be")), <<"/">> \o video_id))
    ELSE None

\* the loop of strip_params testing the pair's value, not its name
RECURSIVE strip_params_loop_by_value(_, _, _)
strip_params_loop_by_value(new_url, pairs, strip) ==
    IF Len(pairs) = 0 THEN new_url
    ELSE strip_params_loop_by_value(
             IF ~contains(strip, pairs[1][2])
             THEN append_pair(new_url, pairs[1][1], pairs[1][2])
             ELSE new_url,
             Tail(pairs), strip)

\* the while loop of strip_params over the input's pairs
RECURSIVE strip_params_loop(_, _, _)
strip_params_loop(new_url, pairs, strip) ==
    IF Len(pairs) = 0 THEN new_url
    ELSE strip_params_loop(
             IF ~contains(strip, pairs[1][1])
             THEN append_pair(new_url, pairs[1][1], pairs[1][2])
             ELSE new_url,
             Tail(pairs), strip)

\* strip_params without its set_query(None)
strip_params_end_keeps_query(new_url) == new_url

\* the end of strip_params: a query without pairs is removed
strip_params_end(new_url) ==
    IF Len(query_pairs(new_url)) = 0 THEN set_query_none(new_url) ELSE new_url

\* strip_params
strip_params(url, strip) ==
    strip_params_end(strip_params_loop(query_pairs_mut_clear(url), query_pairs(url), strip))

\* get_query_value: the value of the first pair named var
get_query_value(url, var) ==
    LET pairs == query_pairs(url)
    IN  IF \E i \in 1..Len(pairs) : pairs[i][1] = var
        THEN Some(pairs[CHOOSE i \in 1..Len(pairs) :
                            pairs[i][1] = var /\ \A j \in 1..(i - 1) : pairs[j][1] # var][2])
        ELSE None

\* the for loop of strip_full_youtube without its early return: the last
\* prefix that maps the URL
RECURSIVE last_mapped(_, _)
last_mapped(url, prefixes) ==
    IF Len(prefixes) = 0 THEN None
    ELSE IF is_some(last_mapped(url, Tail(prefixes)))
    THEN last_mapped(url, Tail(prefixes))
    ELSE map_youtube_prefix(url, prefixes[1])

\* the for loop of strip_full_youtube: the first prefix that maps the URL
RECURSIVE first_mapped(_, _)
first_mapped(url, prefixes) ==
    IF Len(prefixes) = 0 THEN None
    ELSE LET new_url == map_youtube_prefix(url, prefixes[1])
         IN  IF is_some(new_url) THEN new_url ELSE first_mapped(url, Tail(prefixes))

\* the v rule without params.push("v")
strip_youtube_video_keeps_v(url, video_id) ==
    IF is_some(video_id)
    THEN strip_params(set_path(set_host(url, str("youtu.be")), <<"/">> \o unwrap(video_id)),
                      YOUTUBE_TRACKING_PARAMS)
    ELSE strip_params(url, YOUTUBE_TRACKING_PARAMS)

\* the rest of strip_full_youtube, reached when no prefix mapped the URL
strip_youtube_video(url, video_id) ==
    IF is_some(video_id)
    THEN strip_params(set_path(set_host(url, str("youtu.be")), <<"/">> \o unwrap(video_id)),
                      Append(YOUTUBE_TRACKING_PARAMS, str("v")))
    ELSE strip_params(url, YOUTUBE_TRACKING_PARAMS)

strip_youtube_query(url) == strip_youtube_video(url, get_query_value(url, str("v")))

\* strip_tracking and strip_full_youtube as calls: the URL returned, and the
\* URLs strip_tracking was entered with, outermost first
RECURSIVE strip_tracking_call(_)
\* the prefix rule returning the mapped URL without dispatching it again
strip_full_youtube_mapped_no_dispatch(url, new_url) ==
    IF is_some(new_url)
    THEN [url |-> unwrap(new_url), entered |-> << >>]
    ELSE [url |-> strip_youtube_query(url), entered |-> << >>]

\* strip_full_youtube after its for loop: the mapped URL is dispatched again
strip_full_youtube_mapped(url, new_url) ==
    IF is_some(new_url)
    THEN strip_tracking_call(unwrap(new_url))
    ELSE [url |-> strip_youtube_query(url), entered |-> << >>]

strip_full_youtube_call(url) ==
    strip_full_youtube_mapped(url, first_mapped(url, enabled_prefixes))

\* the match with music.youtube.com handled like www.youtube.com
strip_tracking_match_music_full(url, d) ==
    CASE d = str("www.youtube.com") -> strip_full_youtube_call(url)
      [] d = str("youtube.com") -> strip_full_youtube_call(url)
      [] d = str("youtu.be") ->
             [url |-> strip_params(url, YOUTUBE_TRACKING_PARAMS), entered |-> << >>]
      [] d = str("music.youtube.com") -> strip_full_youtube_call(url)
      [] OTHER ->
             [url |-> strip_params(url, COMMON_TRACKING_PARAMS), entered |-> << >>]

\* the match of strip_tracking on the domain d
strip_tracking_match(url, d) ==
    CASE d = str("www.youtube.com") -> strip_full_youtube_call(url)
      [] d = str("youtube.com") -> strip_full_youtube_call(url)
      [] d = str("youtu.be") ->
             [url |-> strip_params(url, YOUTUBE_TRACKING_PARAMS), entered |-> << >>]
      [] d = str("music.youtube.com") ->
             [url |-> strip_params(url, YOUTUBE_TRACKING_PARAMS), entered |-> << >>]
      [] OTHER ->
             [url |-> strip_params(url, COMMON_TRACKING_PARAMS), entered |-> << >>]

\* the call with the URL it was entered with put before those of the calls inside
entered_with(url, r) == [url |-> r.url, entered |-> <<url>> \o r.entered]

strip_tracking_call(url) == entered_with(url, strip_tracking_match(url, unwrap(domain(url))))

strip_full_youtube(url) == strip_full_youtube_call(url).url
strip_tracking(url) == strip_tracking_call(url).url

\* stripped_url != url: Url's equality is equality of the serializations
url_ne(a, b) == as_str(a) # as_str(b)

\* parse_url, given what clipboard.get_text() returned (None: an Err)
parse_url(content) ==
    IF is_some(content)
    THEN LET url == Url_parse(unwrap(content))
         IN  IF is_some(url) /\ is_some(domain(unwrap(url))) THEN url ELSE None
    ELSE None

-----------------------------------------------------------------------------
(* Inputs                                                                  *)

MaxPairs == 3        \* '&'-separated pieces in a query handed to the tests
MaxClipPairs == 1    \* the same, in the text the clipboard holds at startup
MaxWrites == 2       \* main's loop is followed up to this many successful writes

Hosts == {"www.youtube.com", "youtube.com", "youtu.be", "music.youtube.com", "example.com"}
Paths == {<<"/", "watch">>, <<"/", "live", "/", "x", "/", "y">>, <<"/", "shorts", "/">>,
          <<"/", "live">>}
Pieces == {<<"si", "=", "x">>, <<"v", "=", "x">>, <<"v", "=", ".">>, <<"v", "=", "%20">>,
           <<"utm_source", "=", "x">>, <<"si">>}

\* the query strings of at most n pieces; a piece may follow an empty one
RECURSIVE Queries(_)
Queries(n) ==
    IF n = 0 THEN {<< >>}
    ELSE LET shorter == Queries(n - 1)
         IN  shorter \cup Pieces \cup {q \o <<"&">> \o p : q \in shorter, p \in Pieces}

\* the texts "https://host/path", with "?query" after it or not
UrlTexts(hosts, paths, n) ==
    {<<"https", ":", "/", "/", h>> \o p \o q :
        h \in hosts, p \in paths, q \in {<< >>} \cup {<<"?">> \o x : x \in Queries(n)}}

\* the values of YOUTUBE_PREFIXES: "", "live,shorts", "live/x,live"
PrefixSettings == {<< >>, <<"live", ",", "shorts">>, <<"live", "/", "x", ",", "live">>}
default_config == << >>
Settings == {default_config} \cup {[YOUTUBE_PREFIXES |-> csv] : csv \in PrefixSettings}

\* the strip lists the tests hand to strip_params
StripLists == {<< >>, YOUTUBE_TRACKING_PARAMS, Append(YOUTUBE_TRACKING_PARAMS, str("v")),
               COMMON_TRACKING_PARAMS, <<str("v"), str("utm_source")>>}

\* clipboard texts that are no URL with a domain, or whose host is not in lower case
OddTexts == {<<"hello", " ", "world">>, << >>, <<"mailto", ":", "x", "?", "si", "=", "x">>,
             <<"https", ":", "/", "/", "127.0.0.1", "/", "?", "si", "=", "x">>,
             <<"https", ":", "/", "/", "YOUTU.BE", "/", "x", "?", "v", "=", "x">>,
             <<"https", ":", "/", "/", "WWW.YouTube.com", "/", "watch", "?", "v", "=", "x",
               "#", "f">>}

\* what the user copies while the loop runs
CopyTexts == {<<"hello", " ", "world">>,
              <<"https", ":", "/", "/", "www.youtube.com", "/", "watch", "?", "v", "=", "x",
                "&", "si", "=", "x", "&", "utm_source", "=", "x">>,
              <<"https", ":", "/", "/", "example.com", "/", "watch", "?", "utm_source", "=",
                "x", "&", "v", "=", "%20", "#", "f">>,
              <<"https", ":", "/", "/", "youtube.com", "/", "live", "/", "x", "?", "v", "=",
                "x", "&", "si">>,
              <<"https", ":", "/", "/", "youtu.be", "/", "x">>}

\* what init_settings can meet: no config directory known; a directory to
\* create (which fails, or the write of config.toml fails, or both succeed);
\* a directory with config.toml missing, not TOML, not a table of strings, or fine
Envs ==
    {e \in [config_dir : BOOLEAN, is_dir : BOOLEAN, create_dir_ok : BOOLEAN,
            write_ok : BOOLEAN, file : {"missing", "invalid", "not_strings", "ok"},
            settings : Settings] :
        /\ ~e.config_dir => ~e.is_dir /\ e.create_dir_ok /\ e.write_ok
        /\ ~e.is_dir => e.file = "missing"
        /\ e.is_dir => e.create_dir_ok /\ e.write_ok
        /\ ~(e.config_dir /\ (e.is_dir => e.file = "ok") /\ e.create_dir_ok /\ e.write_ok)
               => e.settings = default_config}

NoTick == [calls |-> << >>, url |-> None, stripped |-> None]

-----------------------------------------------------------------------------
(* main: init_settings, Clipboard::new, the loop                           *)

Init ==
    /\ pc = "init_settings"
    /\ APP_CONFIG = None
    /\ env \in Envs
    /\ clipboard \in {None} \cup {Some(t) : t \in OddTexts \cup UrlTexts(Hosts, Paths, MaxClipPairs)}
    /\ tick = NoTick
    /\ writes = 0
    /\ t_url = None /\ t_strip = << >> /\ t_out = None

\* Config::builder()...build().unwrap() and try_deserialize().unwrap(): the
\* map, or None where one of the two unwraps panics
load_config(e) == IF e.file = "ok" THEN Some(e.settings) ELSE None

\* init_settings: [config: what APP_CONFIG is left as, panicked, env]
init_settings(e) ==
    IF ~e.config_dir
    THEN [config |-> None, panicked |-> TRUE, env |-> e]
    ELSE IF ~e.is_dir /\ ~e.create_dir_ok
    THEN [config |-> Some(default_config), panicked |-> FALSE, env |-> e]
    ELSE IF ~e.is_dir /\ ~e.write_ok
    THEN [config |-> Some(default_config), panicked |-> FALSE,
          env |-> [e EXCEPT !.is_dir = TRUE]]
    ELSE LET made == IF e.is_dir THEN e ELSE [e EXCEPT !.is_dir = TRUE, !.file = "ok"]
             map == load_config(made)
         IN  IF is_some(map)
             THEN [config |-> map, panicked |-> FALSE, env |-> made]
             ELSE [config |-> None, panicked |-> TRUE, env |-> made]

InitSettings ==
    /\ pc = "init_settings"
    /\ LET r == init_settings(env)
       IN  /\ APP_CONFIG' = r.config
           /\ env' = r.env
           /\ pc' = IF r.panicked THEN "panic_init_settings" ELSE "clipboard_new"
    /\ UNCHANGED <<clipboard, tick, writes, t_url, t_strip, t_out>>

\* Clipboard::new().unwrap()
ClipboardNew ==
    /\ pc = "clipboard_new"
    /\ \E ok \in BOOLEAN : pc' = IF ok THEN "loop" ELSE "panic_clipboard_new"
    /\ UNCHANGED <<APP_CONFIG, env, clipboard, tick, writes, t_url, t_strip, t_out>>

\* the loop calling set_text whether or not the URL changed
must_write_always(url, stripped_url) == TRUE

\* the loop's body: whether it calls set_text
must_write(url, stripped_url) == url_ne(stripped_url, url)

\* the loop writing the URL it read, not the stripped one
loop_calls_writes_read_url(content, url, stripped_url, set_ok) ==
    LET get == [op |-> "get_text", ok |-> is_some(content), text |-> content]
        write == is_some(url) /\ must_write(unwrap(url), unwrap(stripped_url))
        set == [op |-> "set_text", ok |-> set_ok,
                text |-> IF write THEN Some(as_str(unwrap(url))) ELSE None]
    IN  [calls |-> IF write THEN <<get, set>> ELSE <<get>>,
         url |-> url, stripped |-> stripped_url]

\* the clipboard calls of one iteration, given what get_text returned, the
\* parsed URL, the stripped URL and what set_text answers
loop_calls(content, url, stripped_url, set_ok) ==
    LET get == [op |-> "get_text", ok |-> is_some(content), text |-> content]
        write == is_some(url) /\ must_write(unwrap(url), unwrap(stripped_url))
        set == [op |-> "set_text", ok |-> set_ok,
                text |-> IF write THEN Some(as_str(unwrap(stripped_url))) ELSE None]
    IN  [calls |-> IF write THEN <<get, set>> ELSE <<get>>,
         url |-> url, stripped |-> stripped_url]

loop_strip(content, url, set_ok) ==
    loop_calls(content, url,
               IF is_some(url) THEN Some(strip_tracking(unwrap(url))) ELSE None, set_ok)

\* one iteration of main's loop; content is what get_text returned (None: an
\* Err), set_ok what set_text answers if it is called
loop_body(content, set_ok) == loop_strip(content, parse_url(content), set_ok)

Tick ==
    /\ pc = "loop"
    /\ writes < MaxWrites
    /\ \E get_ok, set_ok \in BOOLEAN :
          LET content == IF get_ok THEN clipboard ELSE None
              t == loop_body(content, set_ok)
              wrote == Len(t.calls) = 2 /\ t.calls[2].ok
          IN  /\ tick' = t
              /\ clipboard' = IF wrote THEN t.calls[2].text ELSE clipboard
              /\ writes' = IF wrote THEN writes + 1 ELSE writes
    /\ UNCHANGED <<pc, APP_CONFIG, env, t_url, t_strip, t_out>>

\* the user copies something else, or the clipboard is emptied
ExternalCopy ==
    /\ pc = "loop"
    /\ \E c \in {None} \cup {Some(t) : t \in CopyTexts} :
          /\ c # clipboard
          /\ clipboard' = c
    /\ writes' = 0
    /\ UNCHANGED <<pc, APP_CONFIG, env, tick, t_url, t_strip, t_out>>

Next == InitSettings \/ ClipboardNew \/ Tick \/ ExternalCopy

Spec == Init /\ [][Next]_vars

-----------------------------------------------------------------------------
(* mod tests: test_strip_params and test_strip_tracking on drawn inputs    *)

NoEnv == [config_dir |-> TRUE, is_dir |-> TRUE, create_dir_ok |-> TRUE, write_ok |-> TRUE,
          file |-> "ok", settings |-> default_config]

InitParams ==
    /\ pc = "test_strip_params"
    /\ APP_CONFIG = None
    /\ t_url \in {Url_parse(t \o f) :
                     t \in UrlTexts({"example.com", "youtu.be"}, {<<"/", "watch">>}, MaxPairs),
                     f \in {<< >>, <<"#", "f">>}}
    /\ t_strip \in StripLists
    /\ t_out = None
    /\ env = NoEnv /\ clipboard = None /\ tick = NoTick /\ writes = 0

TestStripParams ==
    /\ pc = "test_strip_params"
    /\ t_out' = Some(strip_params(unwrap(t_url), t_strip))
    /\ pc' = "done_strip_params"
    /\ UNCHANGED <<APP_CONFIG, env, clipboard, tick, writes, t_url, t_strip>>

SpecParams == InitParams /\ [][TestStripParams]_vars

\* init_test_settings, with each of the settings for "live,shorts"
InitTracking ==
    /\ pc = "test_strip_tracking"
    /\ APP_CONFIG \in {Some(m) : m \in Settings}
    /\ t_url \in {Url_parse(t) : t \in UrlTexts(Hosts, Paths, MaxPairs)}
    /\ t_strip = << >>
    /\ t_out = None
    /\ env = NoEnv /\ clipboard = None /\ tick = NoTick /\ writes = 0

\* the test's call, and strip_tracking called again on what it returned
applied_twice(once) ==
    [once |-> once.url, entered |-> once.entered, twice |-> strip_tracking(once.url)]

TestStripTracking ==
    /\ pc = "test_strip_tracking"
    /\ t_out' = Some(applied_twice(strip_tracking_call(unwrap(t_url))))
    /\ pc' = "done_strip_tracking"
    /\ UNCHANGED <<APP_CONFIG, env, clipboard, tick, writes, t_url, t_strip>>

SpecTracking == InitTracking /\ [][TestStripTracking]_vars

\* both tests
SpecTests == (InitParams \/ InitTracking) /\ [][TestStripParams \/ TestStripTracking]_vars

-----------------------------------------------------------------------------
(* Properties                                                              *)

\* the pairs whose name is not in the set names, in their order
RECURSIVE without(_, _)
without(pairs, names) ==
    IF Len(pairs) = 0 THEN << >>
    ELSE (IF pairs[1][1] \in names THEN << >> ELSE <<pairs[1]>>) \o without(Tail(pairs), names)

elements(v) == {v[i] : i \in 1..Len(v)}
has_atom(s, a) == \E i \in 1..Len(s) : s[i] = a
same_place(a, b) == a.scheme = b.scheme /\ a.host = b.host /\ a.path = b.path
on_full_youtube(url) == domain(url) \in {Some(str("youtube.com")), Some(str("www.youtube.com"))}
tracking_done == pc = "done_strip_tracking"
params_done == pc = "done_strip_params"
tracking_in == unwrap(t_url)
tracking_out == unwrap(t_out).once

\* the prefixes YOUTUBE_PREFIXES configures, from the setting itself
configured_prefixes ==
    IF ~is_some(APP_CONFIG) \/ "YOUTUBE_PREFIXES" \notin DOMAIN unwrap(APP_CONFIG) THEN << >>
    ELSE IF unwrap(APP_CONFIG).YOUTUBE_PREFIXES = << >> THEN << >>
    ELSE LET tokens == split(unwrap(APP_CONFIG).YOUTUBE_PREFIXES, ",")
         IN  [i \in 1..Len(tokens) |-> <<"/">> \o tokens[i] \o <<"/">>]
prefix_matches(url) ==
    \E i \in 1..Len(configured_prefixes) : starts_with(url.path, configured_prefixes[i])
first_prefix(url) ==
    configured_prefixes[CHOOSE i \in 1..Len(configured_prefixes) :
        /\ starts_with(url.path, configured_prefixes[i])
        /\ \A j \in 1..(i - 1) : ~starts_with(url.path, configured_prefixes[j])]

\* C1: site-rule dispatch is idempotent: for every URL with a domain and every
\* YOUTUBE_PREFIXES setting, strip_tracking(strip_tracking(u)) = strip_tracking(u).
C1_Idempotent == tracking_done => unwrap(t_out).twice = unwrap(t_out).once

\* a URL on youtube.com that a path prefix sent to youtu.be, with an si pair removed
C1_Witness ==
    /\ tracking_done
    /\ domain(tracking_in) = Some(str("youtube.com"))
    /\ Len(unwrap(t_out).entered) = 2
    /\ Len(query_pairs(tracking_out)) < Len(query_pairs(tracking_in))
    /\ unwrap(t_out).twice = tracking_out

\* C2: strip_params returns a URL whose query pairs are exactly the input's
\* pairs whose key is not in the strip list, in their original order, with
\* scheme, host and path unchanged; with an empty list every pair is kept.
C2_StripParamsFilters ==
    params_done =>
        /\ query_pairs(unwrap(t_out)) = without(query_pairs(unwrap(t_url)), elements(t_strip))
        /\ same_place(unwrap(t_out), unwrap(t_url))
        /\ t_strip = << >> => query_pairs(unwrap(t_out)) = query_pairs(unwrap(t_url))

\* three pairs, the middle one stripped, the other two kept in their order
C2_Witness ==
    /\ params_done
    /\ Len(query_pairs(unwrap(t_url))) = 3
    /\ query_pairs(unwrap(t_url))[2][1] \in elements(t_strip)
    /\ query_pairs(unwrap(t_out)) = <<query_pairs(unwrap(t_url))[1], query_pairs(unwrap(t_url))[3]>>
    /\ query_pairs(unwrap(t_url))[1] # query_pairs(unwrap(t_url))[3]

\* C3: when no query pair survives strip_params (all keys are in the strip
\* list, or the input query is empty), the URL returned has no query at all
\* and its string has no '?'; the same holds of every result of strip_tracking.
C3_NoEmptyQuery ==
    /\ params_done /\ without(query_pairs(unwrap(t_url)), elements(t_strip)) = << >>
           => unwrap(t_out).query = None /\ ~has_atom(as_str(unwrap(t_out)), "?")
    /\ tracking_done /\ query_pairs(tracking_out) = << >>
           => tracking_out.query = None /\ ~has_atom(as_str(tracking_out), "?")

\* a query of two pairs, both stripped by strip_params
C3_Witness ==
    /\ params_done
    /\ Len(query_pairs(unwrap(t_url))) = 2
    /\ unwrap(t_out).query = None
    /\ has_atom(as_str(unwrap(t_url)), "?")

\* the strip set of a domain other than youtube.com and www.youtube.com
strip_set(d) ==
    IF d \in {Some(str("youtu.be")), Some(str("music.youtube.com"))}
    THEN {str("si")}
    ELSE {str("utm_source"), str("utm_medium"), str("utm_campaign"), str("utm_term"),
          str("utm_content")}

\* C4: for a URL whose domain is neither youtube.com nor www.youtube.com,
\* strip_tracking keeps scheme, host and path and removes exactly the pairs
\* whose key is in the domain's strip set ({si} for youtu.be and
\* music.youtube.com, the five utm_ keys otherwise), the rest in their order.
C4_OtherDomainsFrame ==
    tracking_done /\ ~on_full_youtube(tracking_in) =>
        /\ same_place(tracking_out, tracking_in)
        /\ query_pairs(tracking_out)
               = without(query_pairs(tracking_in), strip_set(domain(tracking_in)))

\* music.youtube.com: si removed, the v pair kept
C4_Witness ==
    /\ tracking_done
    /\ domain(tracking_in) = Some(str("music.youtube.com"))
    /\ \E i \in 1..Len(query_pairs(tracking_in)) : query_pairs(tracking_in)[i][1] = str("si")
    /\ \E i \in 1..Len(query_pairs(tracking_out)) : query_pairs(tracking_out)[i][1] = str("v")
    /\ Len(query_pairs(tracking_out)) = 2

\* the value of the first pair named v
first_v(url) ==
    LET pairs == query_pairs(url)
    IN  pairs[CHOOSE i \in 1..Len(pairs) :
                  pairs[i][1] = str("v") /\ \A j \in 1..(i - 1) : pairs[j][1] # str("v")][2]
has_v(url) == \E i \in 1..Len(query_pairs(url)) : query_pairs(url)[i][1] = str("v")
v_rule_applies == tracking_done /\ on_full_youtube(tracking_in) /\ ~prefix_matches(tracking_in)

\* C5 as claimed: on youtube.com and www.youtube.com, with no prefix matching
\* and a v pair, the result has host youtu.be, path '/' followed by the value
\* of the first v pair, and the input's pairs without si and v; without a v
\* pair host and path are kept and only si pairs are removed.
C5_PathIsSlashValue ==
    v_rule_applies =>
        IF has_v(tracking_in)
        THEN /\ tracking_out.host = Some(str("youtu.be"))
             /\ tracking_out.path = <<"/">> \o first_v(tracking_in)
             /\ query_pairs(tracking_out)
                    = without(query_pairs(tracking_in), {str("si"), str("v")})
        ELSE /\ same_place(tracking_out, tracking_in)
             /\ query_pairs(tracking_out) = without(query_pairs(tracking_in), {str("si")})

\* a value of letters, digits, '-' and '_' only (it may be empty): the words
\* the drawn queries are made of
Words == {"x", "si", "v", "utm_source"}
path_keeps(value) == \A i \in 1..Len(value) : value[i] \in Words

\* C5 amended: as C5, but the path is what set_path makes of '/' + value: it
\* is '/' followed by the value for a value of letters, digits, '-' and '_';
\* a value '.' or '..' gives the path '/', and a space is written %20.
C5_PathIsSetPathOfValue ==
    v_rule_applies =>
        IF has_v(tracking_in)
        THEN /\ tracking_out.host = Some(str("youtu.be"))
             /\ path_keeps(first_v(tracking_in))
                    => tracking_out.path = <<"/">> \o first_v(tracking_in)
             /\ first_v(tracking_in) \in {<<".">>, <<".", ".">>} => tracking_out.path = <<"/">>
             /\ first_v(tracking_in) = <<" ">> => tracking_out.path = <<"/", "%20">>
             /\ query_pairs(tracking_out)
                    = without(query_pairs(tracking_in), {str("si"), str("v")})
        ELSE /\ same_place(tracking_out, tracking_in)
             /\ query_pairs(tracking_out) = without(query_pairs(tracking_in), {str("si")})

\* www.youtube.com/watch with two v pairs, an si pair between them: the first
\* value is the path, one other pair is left
C5_Witness ==
    /\ v_rule_applies
    /\ domain(tracking_in) = Some(str("www.youtube.com"))
    /\ Len(query_pairs(tracking_in)) = 3
    /\ query_pairs(tracking_in)[1] = <<str("v"), str("x")>>
    /\ query_pairs(tracking_in)[2][1] = str("si")
    /\ query_pairs(tracking_in)[3][1] = str("utm_source")
    /\ tracking_out.path = <<"/", "x">>
    /\ Len(query_pairs(tracking_out)) = 1

\* the URL the prefix rule builds: host youtu.be, path '/' + the text after
\* the first matching prefix up to the next '/'
video_id_after(url, prefix) == before(strip_prefix(url.path, prefix), {"/"})
prefix_target(url) ==
    [url EXCEPT !.host = Some(str("youtu.be")),
                !.path = <<"/">> \o video_id_after(url, first_prefix(url))]

\* C6: on youtube.com and www.youtube.com, when the path starts with a
\* configured prefix, only the first such prefix in configured order applies:
\* the result is the dispatch of the URL with host youtu.be and path '/' + the
\* path text after that prefix up to the next '/', so si pairs are removed and
\* all others, v included, are kept; the rule comes before the v rule.  With
\* YOUTUBE_PREFIXES empty or absent there is no prefix and the rule never fires.
C6_FirstPrefixApplies ==
    /\ tracking_done /\ on_full_youtube(tracking_in) /\ prefix_matches(tracking_in) =>
          /\ tracking_out = strip_tracking(prefix_target(tracking_in))
          /\ tracking_out.host = Some(str("youtu.be"))
          /\ tracking_out.path = prefix_target(tracking_in).path
          /\ query_pairs(tracking_out) = without(query_pairs(tracking_in), {str("si")})
    /\ tracking_done /\ read_setting("YOUTUBE_PREFIXES") \in {None, Some(<< >>)} =>
          /\ enabled_prefixes = << >>
          /\ Len(unwrap(t_out).entered) = 1

\* /live/x/y under "live/x,live": both prefixes match, the first gives y; the
\* v pair is kept and the si pair removed
C6_Witness ==
    /\ tracking_done /\ on_full_youtube(tracking_in)
    /\ Len(configured_prefixes) = 2
    /\ \A i \in 1..2 : starts_with(tracking_in.path, configured_prefixes[i])
    /\ tracking_out.path = <<"/", "y">>
    /\ has_v(tracking_in) /\ has_v(tracking_out)
    /\ Len(query_pairs(tracking_out)) < Len(query_pairs(tracking_in))

\* the clipboard calls of the last iteration, by operation
calls_of(op) == {i \in 1..Len(tick.calls) : tick.calls[i].op = op}
text_read == tick.calls[1].text
url_read == Url_parse(unwrap(text_read))

\* C7: in every tick there is at most one clipboard read and at most one
\* write; a write happens only if the read succeeded, the text parsed as a URL
\* with a domain and the rewritten URL's string differs from the parsed URL's,
\* and the text written is the rewritten URL's string; text that is no URL, or
\* has no domain, causes no write.
C7_TickReadsOnceWritesIfChanged ==
    /\ Cardinality(calls_of("get_text")) <= 1
    /\ Cardinality(calls_of("set_text")) <= 1
    /\ calls_of("set_text") # {} =>
          /\ calls_of("get_text") = {1} /\ calls_of("set_text") = {2}
          /\ tick.calls[1].ok /\ is_some(text_read)
          /\ is_some(url_read) /\ is_some(domain(unwrap(url_read)))
          /\ as_str(strip_tracking(unwrap(url_read))) # as_str(unwrap(url_read))
          /\ tick.calls[2].text = Some(as_str(strip_tracking(unwrap(url_read))))
    /\ (Len(tick.calls) > 0 /\ is_some(text_read)
          /\ (~is_some(url_read) \/ ~is_some(domain(unwrap(url_read)))))
       => calls_of("set_text") = {}

\* a tick that read a URL and wrote the rewritten one
C7_Witness ==
    /\ Len(tick.calls) = 2
    /\ tick.calls[2].ok
    /\ clipboard = tick.calls[2].text
    /\ clipboard # text_read

\* whether config.toml cannot be had: the directory cannot be created, or
\* the file cannot be written, is missing, is no TOML or no table of strings
config_unavailable(e) ==
    e.config_dir /\ ((~e.is_dir /\ ~e.create_dir_ok) \/ e.file # "ok")

\* C8: configuration loading never fails startup: whenever the directory or
\* the file cannot be created or read, init_settings ends with an empty
\* configuration, in which every lookup returns nothing, and goes on to the loop.
C8_ConfigFailureIsNotFatal ==
    pc # "init_settings" /\ config_unavailable(env) =>
        /\ pc # "panic_init_settings"
        /\ APP_CONFIG = Some(default_config)
        /\ read_setting("YOUTUBE_PREFIXES") = None

\* C9: the dispatch terminates with recursion depth at most 1: strip_tracking
\* is entered at most once more, only from the prefix rule, and then with a
\* URL whose host is youtu.be, whose rule does not dispatch again.
C9_RecursionDepthOne ==
    tracking_done =>
        /\ Len(unwrap(t_out).entered) \in {1, 2}
        /\ unwrap(t_out).entered[1] = tracking_in
        /\ Len(unwrap(t_out).entered) = 2 =>
              /\ domain(unwrap(t_out).entered[2]) = Some(str("youtu.be"))
              /\ on_full_youtube(tracking_in) /\ prefix_matches(tracking_in)

\* a call that dispatched once more
C9_Witness ==
    /\ tracking_done
    /\ Len(unwrap(t_out).entered) = 2
    /\ domain(tracking_in) = Some(str("www.youtube.com"))

\* C10: the loop converges: after a successful write, and until the clipboard
\* is changed from outside, no tick writes again: the text written parses to
\* a URL with a domain whose string is that text and which the dispatch
\* leaves as it is; so a change from outside causes at most one write.
C10_AtMostOneWrite ==
    /\ writes <= 1
    /\ writes = 1 =>
          /\ is_some(clipboard)
          /\ is_some(parse_url(clipboard))
          /\ as_str(unwrap(parse_url(clipboard))) = unwrap(clipboard)
          /\ strip_tracking(unwrap(parse_url(clipboard))) = unwrap(parse_url(clipboard))

\* a tick that ran after the write, read the written text and wrote nothing
C10_Witness ==
    /\ writes = 1
    /\ Len(tick.calls) = 1
    /\ tick.calls[1].text = clipboard
    /\ is_some(tick.url)
    /\ tick.stripped = tick.url

====
